---- MODULE Spec2Model ----
(***************************************************************************)
(* Model of the listr signature codec (internal/audiostream/signature.go), *)
(* of the band classifier of the recognition client (getFrequencyBand) and *)
(* of the audio source (internal/audiostream/audiostream.go: Record,       *)
(* InitStream, streamAudio, GetChunk, GetAudioData).                       *)
(*                                                                         *)
(* Representation.  A byte buffer is a sequence of integers in 0..255.     *)
(* TLC's integers are 32-bit signed, so a uint32 that is only copied or    *)
(* compared is kept as its four little-endian bytes; a uint32 that the     *)
(* code computes with is turned into a number by Uint32.  A frequency is   *)
(* a float64 in the code and a whole number of tenths of a hertz here.     *)
(***************************************************************************)
EXTENDS Integers, Sequences, FiniteSets, TLC

VARIABLES
    sig,        \* the DecodedMessage handed to EncodeToBinary
    encPrev,    \* outcome of the EncodeToBinary call before the last one
    encRes,     \* outcome of the last EncodeToBinary call
    data,       \* the byte buffer handed to DecodeFromBinary
    decRes,     \* outcome of DecodeFromBinary(data)
    peaksIn,    \* one band's peak sequence (the inner loop of the encoder)
    payload,    \* the peaksBuf built from peaksIn
    parsed,     \* outcome of the decoder's peak loop on payload
    freq,       \* argument of getFrequencyBand, in tenths of a hertz
    band,       \* result of getFrequencyBand
    audioChan,  \* the channel Record reads from (scs.audioChan)
    chunkCounter, \* scs.chunkCounter
    scc,        \* the SoundCloudChunk Record is called on
    rec,        \* the Record call: its position, i and chunkBuffer
    returned,   \* what the last Record or GetChunk call returned
    audio       \* what GetAudioData returned on the chunk returned

codecVars == <<sig, encPrev, encRes, data, decRes, peaksIn, payload, parsed, freq, band>>
streamVars == <<audioChan, chunkCounter, scc, rec, returned, audio>>
vars == <<sig, encPrev, encRes, data, decRes, peaksIn, payload, parsed, freq, band,
          audioChan, chunkCounter, scc, rec, returned, audio>>

(***************************************************************************)
(* Bounds of the model.                                                    *)
(***************************************************************************)
MaxPeaks == 4        \* peaks per band in the signatures given to the codec
MaxSeqLen == 3       \* peaks in a sequence given to the peak loops alone
MaxDeclared == 20    \* largest payload length a crafted TLV header declares
MaxFreq == 16000     \* largest frequency classified, in tenths of a hertz
MaxRun == 64         \* longest run of peaks decoded from zero bytes that is written out
ChunkLen == 3        \* len(chunkBuffer) and the capacity of scs.audioChan: 320000 in the code
ChanCap == 2         \* largest capacity of a channel handed to Record directly
MaxChunks == 2       \* GetChunk calls after an InitStream

(***************************************************************************)
(* Program constants.                                                      *)
(***************************************************************************)
LowBand == 0
MidBand == 1
HighBand == 2
VeryHighBand == 3
Bands == {LowBand, MidBand, HighBand, VeryHighBand}
SampleRates == {8000, 16000, 32000, 44100, 48000}
HeaderSize == 48                      \* binary.Size(RawSignatureHeader)
Magic1Bytes == <<128, 37, 254, 202>>  \* 0xCAFE2580, little-endian
Magic2Bytes == <<0, 156, 17, 148>>    \* 0x94119C00, little-endian
BandIDBase == 1610809408              \* 0x60030040
InnerTag == 1073741824                \* 0x40000000
FixedValue == 8126464                 \* (15 << 19) + 0x40000

(***************************************************************************)
(* encoding/binary, little-endian.                                         *)
(***************************************************************************)
Min(a, b) == IF a < b THEN a ELSE b
Zeros(n) == [i \in 1..n |-> 0]
Slice(s, from, to) == IF to <= from THEN <<>> ELSE SubSeq(s, from + 1, to)   \* s[from:to]
LE16(n) == <<n % 256, (n \div 256) % 256>>
LE32(n) == <<n % 256, (n \div 256) % 256, (n \div 65536) % 256, (n \div 16777216) % 256>>
Uint16(b) == b[1] + 256 * b[2]
Uint32(b) == b[1] + 256 * b[2] + 65536 * b[3] + 16777216 * b[4]
\* io.ReadFull with n bytes left and more wanted
ReadFullErr(n) == IF n = 0 THEN "EOF" ELSE "unexpected EOF"
\* Go's remainder truncates toward zero
GoRem(a, m) == IF a >= 0 THEN a % m ELSE -((-a) % m)

(***************************************************************************)
(* hash/crc32, IEEE polynomial, on four little-endian bytes.               *)
(***************************************************************************)
RECURSIVE XorBits(_, _, _)
XorBits(a, b, n) ==
    IF n = 0 THEN 0
    ELSE (((a % 2) + (b % 2)) % 2) + 2 * XorBits(a \div 2, b \div 2, n - 1)
XorNib == [a \in 0..15 |-> [b \in 0..15 |-> XorBits(a, b, 4)]]
Xor8(a, b) == XorNib[a \div 16][b \div 16] * 16 + XorNib[a % 16][b % 16]
Xor32(x, y) == <<Xor8(x[1], y[1]), Xor8(x[2], y[2]), Xor8(x[3], y[3]), Xor8(x[4], y[4])>>
Shr1(x) ==
    << x[1] \div 2 + (x[2] % 2) * 128, x[2] \div 2 + (x[3] % 2) * 128,
       x[3] \div 2 + (x[4] % 2) * 128, x[4] \div 2 >>
IEEEPoly == <<32, 131, 184, 237>>     \* 0xEDB88320
RECURSIVE CrcBits(_, _)
CrcBits(c, k) ==
    IF k = 0 THEN c
    ELSE CrcBits(IF c[1] % 2 = 1 THEN Xor32(Shr1(c), IEEEPoly) ELSE Shr1(c), k - 1)
IEEETable == [n \in 0..255 |-> CrcBits(<<n, 0, 0, 0>>, 8)]
CrcByte(c, b) == Xor32(IEEETable[Xor8(c[1], b)], <<c[2], c[3], c[4], 0>>)
\* the update loop over s[from:to], split in halves to keep the evaluation shallow
RECURSIVE CrcUpdate(_, _, _, _)
CrcUpdate(c, s, from, to) ==
    IF to <= from \/ c[1] \notin Int THEN c
    ELSE IF to = from + 1 THEN CrcByte(c, s[to])
    ELSE LET mid == (from + to) \div 2
             left == CrcUpdate(c, s, from, mid)
         IN CrcUpdate(left, s, mid, to)
ChecksumIEEE(s) ==
    Xor32(CrcUpdate(<<255, 255, 255, 255>>, s, 0, Len(s)), <<255, 255, 255, 255>>)

(***************************************************************************)
(* EncodeToBinary.                                                         *)
(***************************************************************************)
\* the escape test with its bound one too high
NeedsEscapeAbove(gap) == gap > 255
\* the escape test of the peak loop
NeedsEscape(gap) == gap >= 255

\* the peak loop: one band's peaksBuf, from peaks[i] on, with the running
\* frame number fftPassNumber
RECURSIVE EncodePeaksFrom(_, _, _)
EncodePeaksFrom(peaks, i, fftPassNumber) ==
    IF i > Len(peaks) \/ fftPassNumber \notin Int THEN <<>>
    ELSE LET peak == peaks[i]
             esc == NeedsEscape(peak.FFTPassNumber - fftPassNumber)
             base == IF esc THEN peak.FFTPassNumber ELSE fftPassNumber
         IN (IF esc THEN <<255>> \o LE32(peak.FFTPassNumber) ELSE <<>>)
            \o <<(peak.FFTPassNumber - base) % 256>>
            \o LE16(peak.PeakMagnitude % 65536)
            \o LE16(peak.CorrectedPeakFrequencyBin % 65536)
            \o EncodePeaksFrom(peaks, i + 1, peak.FFTPassNumber)
EncodePeaks(peaks) == EncodePeaksFrom(peaks, 1, 0)

\* the length handed to make([]byte, ...) for a band's padding
PaddingLen(n) == GoRem(-n, 4)

\* the band loop over the map, in the iteration order `order`; make panics
\* on a negative length
RECURSIVE EncodeBands(_, _, _)
EncodeBands(msg, order, i) ==
    IF i > Len(order) THEN [panic |-> FALSE, bytes |-> <<>>]
    ELSE LET frequencyBand == order[i]
             peaksBuf == EncodePeaks(msg.peaks[frequencyBand])
             pad == PaddingLen(Len(peaksBuf))
         IN IF pad < 0 THEN [panic |-> TRUE, bytes |-> <<>>]
            ELSE LET rest == EncodeBands(msg, order, i + 1)
                 IN IF rest.panic THEN rest
                    ELSE [panic |-> FALSE,
                          bytes |-> LE32(BandIDBase + frequencyBand) \o LE32(Len(peaksBuf))
                                    \o peaksBuf \o Zeros(pad) \o rest.bytes]

\* uint32(msg.SampleRateHz) << 27, as the four bytes written
ShiftedSampleRateID(rate) == <<0, 0, 0, (rate % 32) * 8>>
\* uint32(float64(NumberSamples) + float64(SampleRateHz) * 0.24)
NumberSamplesPlusDividedRate(msg) == (msg.NumberSamples * 100 + msg.SampleRateHz * 24) \div 100

\* binary.Write of a RawSignatureHeader; crc and shifted are four bytes each
RawHeader(crc, size, shifted, numSamples) ==
    Magic1Bytes \o crc \o LE32(size) \o Magic2Bytes \o Zeros(12)
    \o shifted \o Zeros(8) \o LE32(numSamples) \o LE32(FixedValue)

\* what is copied from finalBuf behind the re-serialised header
CarriedOver(finalBuf) == Slice(finalBuf, 12, Len(finalBuf))

NoEnc == [st |-> "none", bytes |-> <<>>]
Panicked == [st |-> "panic", bytes |-> <<>>]

EncodeToBinary(msg, order) ==
    LET contents == EncodeBands(msg, order, 1)
    IN IF contents.panic THEN Panicked
       ELSE LET size == Len(contents.bytes) + 8
                shifted == ShiftedSampleRateID(msg.SampleRateHz)
                count == NumberSamplesPlusDividedRate(msg)
                finalBuf == RawHeader(Zeros(4), size, shifted, count)
                            \o LE32(InnerTag) \o LE32(Len(contents.bytes) + 8)
                            \o contents.bytes
                crc == ChecksumIEEE(Slice(finalBuf, 8, Len(finalBuf)))
                updatedBuf == RawHeader(crc, size, shifted, count) \o CarriedOver(finalBuf)
            IN [st |-> "ok", bytes |-> updatedBuf]

(***************************************************************************)
(* DecodeFromBinary.                                                       *)
(***************************************************************************)
NilMsg == [nil |-> TRUE, SampleRateHz |-> 0, NumberSamples |-> 0, peaks |-> <<>>]
NoDec == [st |-> "none", err |-> "", msg |-> NilMsg]
Fail(e) == [st |-> "err", err |-> e, msg |-> NilMsg]

\* the header's uint32 at byte offset off
Field(buf, off) == Slice(buf, off, off + 4)

\* the checks with both magic constants before the size
HeaderCheckMagicFirst(buf) ==
    IF Field(buf, 0) # Magic1Bytes THEN "invalid magic1"
    ELSE IF Field(buf, 12) # Magic2Bytes THEN "invalid magic2"
    ELSE IF Field(buf, 8) # LE32(Len(buf) - HeaderSize) THEN "invalid size"
    ELSE ""
\* the three checks on the header, in the order of the code: "" when all pass
HeaderCheck(buf) ==
    IF Field(buf, 0) # Magic1Bytes THEN "invalid magic1"
    ELSE IF Field(buf, 8) # LE32(Len(buf) - HeaderSize) THEN "invalid size"
    ELSE IF Field(buf, 12) # Magic2Bytes THEN "invalid magic2"
    ELSE ""

\* int(header.ShiftedSampleRateID >> 27)
SampleRateOf(shifted) == shifted[4] \div 8
\* int(float64(count) - float64(rate) * 0.24): the conversion truncates toward zero
NumberSamplesOf(count, rate) ==
    LET v == count * 100 - rate * 24
    IN IF v >= 0 THEN v \div 100 ELSE -((-v) \div 100)

\* FrequencyBand(frequencyBandID - 0x60030040) in uint32 arithmetic, as the
\* pair <<high 16 bits, low 16 bits>>; the band b of 0..3 is <<0, b>>
FrequencyBandOf(id) ==
    LET lo == id[1] + 256 * id[2]
        hi == id[3] + 256 * id[4]
        borrow == IF lo < 64 THEN 1 ELSE 0
    IN <<(hi - 24579 - borrow) % 65536, (lo - 64) % 65536>>
BandKey(b) == <<0, b>>

\* peaksBuf[i], for a peaksBuf that is the bytes read, `buf`, and zeros behind
\* them up to the length made
ByteAt(buf, i) == IF i < Len(buf) THEN buf[i + 1] ELSE 0
BytesAt(buf, from, to) == [k \in 1..(to - from) |-> ByteAt(buf, from + k - 1)]

\* the peak loop on `left` bytes that are all zero: every five bytes are one
\* peak in the frame fftPassNumber; a run of more than MaxRun such peaks is
\* written as one peak with the number of its copies in Times
ZeroPeaks(left, fftPassNumber, acc, rate) ==
    LET n == left \div 5
        peak == [FFTPassNumber |-> fftPassNumber, PeakMagnitude |-> 0,
                 CorrectedPeakFrequencyBin |-> 0, SampleRateHz |-> rate]
    IN IF left % 5 \in {1, 3} THEN [err |-> "EOF", peaks |-> <<>>]
       ELSE IF left % 5 \in {2, 4} THEN [err |-> "unexpected EOF", peaks |-> <<>>]
       ELSE IF n <= MaxRun THEN [err |-> "", peaks |-> acc \o [i \in 1..n |-> peak]]
       ELSE [err |-> "",
             peaks |-> Append(acc, [FFTPassNumber |-> fftPassNumber, PeakMagnitude |-> 0,
                                    CorrectedPeakFrequencyBin |-> 0, SampleRateHz |-> rate,
                                    Times |-> n])]

\* the peak loop on one peaksBuf of `size` bytes, the bytes read into it being
\* buf: pos is the reader's offset, acc the peaks appended so far
RECURSIVE DecodePeaksFrom(_, _, _, _, _, _)
DecodePeaksFrom(buf, size, pos, fftPassNumber, acc, rate) ==
    LET left == size - pos
    IN IF left <= 0 \/ fftPassNumber \notin Int \/ Len(acc) < 0 THEN [err |-> "", peaks |-> acc]
       ELSE IF pos >= Len(buf) THEN ZeroPeaks(left, fftPassNumber, acc, rate)
       ELSE IF ByteAt(buf, pos) = 255
            THEN IF left - 1 < 4 THEN [err |-> ReadFullErr(left - 1), peaks |-> <<>>]
                 ELSE DecodePeaksFrom(buf, size, pos + 5, Uint32(BytesAt(buf, pos + 1, pos + 5)),
                                      acc, rate)
       ELSE IF left - 1 < 2 THEN [err |-> ReadFullErr(left - 1), peaks |-> <<>>]
       ELSE IF left - 3 < 2 THEN [err |-> ReadFullErr(left - 3), peaks |-> <<>>]
       ELSE DecodePeaksFrom(buf, size, pos + 5, fftPassNumber + ByteAt(buf, pos),
                Append(acc, [FFTPassNumber |-> fftPassNumber + ByteAt(buf, pos),
                             PeakMagnitude |-> Uint16(BytesAt(buf, pos + 1, pos + 3)),
                             CorrectedPeakFrequencyBin |-> Uint16(BytesAt(buf, pos + 3, pos + 5)),
                             SampleRateHz |-> rate]),
                rate)
DecodePeaks(buf, rate) == DecodePeaksFrom(buf, Len(buf), 0, 0, <<>>, rate)

\* msg.FrequencyBandToSoundPeaks[band] = append(msg.FrequencyBandToSoundPeaks[band], ...)
AppendPeaks(m, key, ps) ==
    IF ps = <<>> THEN m
    ELSE [k \in DOMAIN m \cup {key} |->
            IF k = key THEN (IF key \in DOMAIN m THEN m[key] ELSE <<>>) \o ps ELSE m[k]]

\* buf.Read(tlvHeader[:]) of n bytes at pos: the bytes not read keep their old value
ReadInto(old, buf, pos, n) == [i \in 1..Len(old) |-> IF i <= n THEN buf[pos + i] ELSE old[i]]

\* the type-length-value loop: pos is the reader's offset, tlvHeader the array
\* declared outside the loop, peaks the map filled so far
RECURSIVE ReadTLV(_, _, _, _, _)
ReadTLV(buf, pos, tlvHeader, peaks, rate) ==
    IF pos >= Len(buf) \/ Cardinality(DOMAIN peaks) < 0 THEN [err |-> "", peaks |-> peaks]
    ELSE LET n == Min(8, Len(buf) - pos)
             hdr == ReadInto(tlvHeader, buf, pos, n)
             frequencyPeaksSize == Uint32(Slice(hdr, 4, 8))
             frequencyPeaksPadding == GoRem(-frequencyPeaksSize, 4)
             pos2 == pos + n
         IN IF pos2 >= Len(buf) THEN [err |-> "EOF", peaks |-> peaks]
            ELSE LET got == Min(frequencyPeaksSize, Len(buf) - pos2)
                     peaksBuf == Slice(buf, pos2, pos2 + got)
                     pos3 == IF pos2 + got + frequencyPeaksPadding < 0 THEN pos2 + got
                             ELSE pos2 + got + frequencyPeaksPadding
                     r == DecodePeaksFrom(peaksBuf, frequencyPeaksSize, 0, 0, <<>>, rate)
                 IN IF r.err # "" THEN [err |-> r.err, peaks |-> peaks]
                    ELSE ReadTLV(buf, pos3, hdr,
                                 AppendPeaks(peaks, FrequencyBandOf(Slice(hdr, 0, 4)), r.peaks),
                                 rate)

DecodeFromBinary(buf) ==
    IF Len(buf) < HeaderSize THEN Fail(ReadFullErr(Len(buf)))
    ELSE IF HeaderCheck(buf) # "" THEN Fail(HeaderCheck(buf))
    ELSE LET rate == SampleRateOf(Field(buf, 28))
             count == NumberSamplesOf(Uint32(Field(buf, 40)), rate)
             r == ReadTLV(buf, HeaderSize, Zeros(8), <<>>, rate)
         IN IF r.err # "" THEN Fail(r.err)
            ELSE [st |-> "ok", err |-> "",
                  msg |-> [nil |-> FALSE, SampleRateHz |-> rate, NumberSamples |-> count,
                           peaks |-> r.peaks]]

(***************************************************************************)
(* getFrequencyBand (frequency in tenths of a hertz).                      *)
(***************************************************************************)
\* the comparison with the threshold included
BelowOrAt(f, hz) == f <= hz * 10
Below(f, hz) == f < hz * 10      \* frequency < hz
getFrequencyBand(f) ==
    IF Below(f, 250) THEN LowBand
    ELSE IF Below(f, 520) THEN MidBand
    ELSE IF Below(f, 1450) THEN HighBand
    ELSE VeryHighBand

(***************************************************************************)
(* The signatures given to the codec.  Each band draws a prefix of its own *)
(* track of <<gap to the previous frame, magnitude, frequency bin>>; the   *)
(* first peaks of the Low and Mid tracks are those of                      *)
(* TestDecodeEncodeRoundTrip.                                              *)
(***************************************************************************)
Track(b) ==
    CASE b = LowBand ->
           << <<100, 7000, 512>>, <<255, 0, 0>>, <<0, 65535, 65535>>,
              <<1, 6144, 1024>>, <<254, 1, 2>>, <<300, 3, 4>> >>
      [] b = MidBand ->
           << <<100 + 100, 6500, 256>>, <<1, 65535, 0>>, <<254, 0, 65535>>,
              <<0, 255, 255>>, <<70000, 256, 1>>, <<2, 5, 6>> >>
      [] b = HighBand ->
           << <<300, 1000, 2000>>, <<255, 65280, 255>>, <<5, 4096, 8>>,
              <<0, 9, 10>>, <<1, 11, 12>>, <<1, 13, 14>> >>
      [] OTHER ->
           << <<0, 0, 0>>, <<0, 1, 1>>, <<0, 2, 2>>,
              <<0, 3, 3>>, <<0, 4, 4>>, <<0, 5, 5>> >>

RECURSIVE PassAt(_, _)
PassAt(track, i) == IF i = 0 THEN 0 ELSE PassAt(track, i - 1) + track[i][1]

PeaksOf(track, n, rate) ==
    [i \in 1..n |-> [FFTPassNumber |-> PassAt(track, i),
                     PeakMagnitude |-> track[i][2],
                     CorrectedPeakFrequencyBin |-> track[i][3],
                     SampleRateHz |-> rate]]

SampleCounts == {1000}
Lengths == UNION {[S -> 1..MaxPeaks] : S \in SUBSET Bands}
Signatures ==
    {[SampleRateHz |-> r, NumberSamples |-> n,
      peaks |-> [b \in DOMAIN len |-> PeaksOf(Track(b), len[b], r)]] :
        r \in SampleRates, n \in SampleCounts, len \in Lengths}

\* the orders in which `range` may visit the keys of a map
Orders(S) == {q \in [1..Cardinality(S) -> S] : \A i, j \in 1..Cardinality(S) : q[i] = q[j] => i = j}

(***************************************************************************)
(* State machine of the codec: a signature is encoded, twice in a run as   *)
(* TestDecodeEncodeRoundTrip does (EncodeToBinary, then EncodeToURI), and  *)
(* the buffer returned by the last call is decoded.                        *)
(***************************************************************************)
NoData == <<-1>>
NoParse == [st |-> "none", err |-> "", peaks |-> <<>>]
NoBand == 0 - 1
NoSig == [SampleRateHz |-> 0, NumberSamples |-> 0, peaks |-> <<>>]

NilBuffer == <<-1>>       \* a nil *[]byte
NilChan == [nil |-> TRUE, cap |-> 0, q |-> <<>>, closed |-> FALSE, sent |-> <<>>]
NoChunk == [kind |-> "none", timestamp |-> 0, audioChunk |-> NilBuffer]
NoRec == [pc |-> "idle", i |-> 0, chunkBuffer |-> <<>>, newTimestamp |-> 0, exit |-> ""]
NoAudio == [st |-> "none", bytes |-> <<>>]

\* no stream initialised, no chunk recorded
StreamIdle ==
    /\ audioChan = NilChan /\ chunkCounter = 0
    /\ scc = NoChunk /\ rec = NoRec /\ returned = NoChunk /\ audio = NoAudio

Idle ==
    /\ encPrev = NoEnc /\ encRes = NoEnc
    /\ decRes = NoDec
    /\ payload = NoData /\ parsed = NoParse
    /\ band = NoBand
    /\ StreamIdle

\* no codec call made
CodecIdle ==
    /\ sig = NoSig /\ data = NoData /\ peaksIn = <<>> /\ freq = 0
    /\ encPrev = NoEnc /\ encRes = NoEnc
    /\ decRes = NoDec
    /\ payload = NoData /\ parsed = NoParse
    /\ band = NoBand

Init ==
    /\ sig \in Signatures
    /\ data = NoData
    /\ peaksIn = <<>>
    /\ freq = 0
    /\ Idle

Encode ==
    /\ encPrev.st = "none"
    /\ \E order \in Orders(DOMAIN sig.peaks) :
          /\ encRes' = EncodeToBinary(sig, order)
          /\ encPrev' = encRes
          /\ data' = IF encRes'.st = "ok" THEN encRes'.bytes ELSE NoData
          /\ decRes' = NoDec
    /\ UNCHANGED <<sig, peaksIn, payload, parsed, freq, band>>
    /\ UNCHANGED streamVars

Decode ==
    /\ data # NoData
    /\ decRes.st = "none"
    /\ decRes' = DecodeFromBinary(data)
    /\ UNCHANGED <<sig, encPrev, encRes, data, peaksIn, payload, parsed, freq, band>>
    /\ UNCHANGED streamVars

Next == Encode \/ Decode

Spec == Init /\ [][Next]_vars

(***************************************************************************)
(* The peak loops alone: the encoder's loop builds a payload from one      *)
(* band's peaks and the decoder's loop parses it.                          *)
(***************************************************************************)
Gaps == {0, 1, 254, 255, 256, 70000}
Steps == {<<g, 0, 0>> : g \in Gaps} \cup {<<g, 65535, 65535>> : g \in Gaps}
PeakSeqs ==
    UNION {{PeaksOf(t, n, 16000) : t \in [1..n -> Steps]} : n \in 0..MaxSeqLen}

InitPeaks ==
    /\ peaksIn \in PeakSeqs
    /\ sig = NoSig
    /\ data = NoData
    /\ freq = 0
    /\ Idle

BuildPayload ==
    /\ payload = NoData
    /\ payload' = EncodePeaks(peaksIn)
    /\ UNCHANGED <<sig, encPrev, encRes, data, decRes, peaksIn, parsed, freq, band>>
    /\ UNCHANGED streamVars

ParsePayload ==
    /\ payload # NoData
    /\ parsed.st = "none"
    /\ parsed' = [st |-> "done",
                  err |-> DecodePeaks(payload, 16000).err,
                  peaks |-> DecodePeaks(payload, 16000).peaks]
    /\ UNCHANGED <<sig, encPrev, encRes, data, decRes, peaksIn, payload, freq, band>>
    /\ UNCHANGED streamVars

NextPeaks == BuildPayload \/ ParsePayload

SpecPeaks == InitPeaks /\ [][NextPeaks]_vars

(***************************************************************************)
(* DecodeFromBinary on crafted buffers: the buffers of                     *)
(* TestInvalidBinaryData, and a header with right or wrong magic and size  *)
(* fields followed by one TLV record cut at every length.                  *)
(***************************************************************************)
CraftedHeader(m1, size, m2) ==
    m1 \o Zeros(4) \o LE32(size) \o m2 \o Zeros(12)
    \o ShiftedSampleRateID(4) \o Zeros(8) \o LE32(1000) \o LE32(FixedValue)

\* the payload bytes the records are cut from: five records, one an escape
PayloadSource == EncodePeaks(PeaksOf(Track(LowBand), 4, 16000))

\* a TLV header declaring `declared` bytes and the bytes behind it, cut to `cut`
CutRecord(declared, cut) ==
    Slice(LE32(BandIDBase + LowBand) \o LE32(declared) \o Slice(PayloadSource, 0, declared),
          0, cut)
Tails == UNION {{CutRecord(d, c) : c \in 0..(8 + d)} : d \in 0..MaxDeclared}

\* headers without a record behind them, with every value of the top byte of
\* ShiftedSampleRateID and a few values of NumberSamplesPlusDividedRate
PackedCounts == {0, 1, 7, 1000, 4840}
CountHeaders ==
    {RawHeader(Zeros(4), 0, <<0, 0, 0, t>>, c) : t \in 0..255, c \in PackedCounts}

BadMagic == <<0, 0, 0, 0>>
CraftedBuffers ==
    {Zeros(0), Zeros(10), Zeros(47), Zeros(100)}
    \cup CountHeaders
    \cup {Slice(CraftedHeader(Magic1Bytes, 0, Magic2Bytes), 0, n) : n \in {1, 47}}
    \cup {CraftedHeader(m1, Len(t) + off, m2) \o t :
            m1 \in {Magic1Bytes, BadMagic}, off \in {0, 1},
            m2 \in {Magic2Bytes, BadMagic}, t \in Tails}

InitDecode ==
    /\ data \in CraftedBuffers
    /\ sig = NoSig
    /\ peaksIn = <<>>
    /\ freq = 0
    /\ Idle

NextDecode == Decode

SpecDecode == InitDecode /\ [][NextDecode]_vars

(***************************************************************************)
(* DecodeFromBinary on streams of records.  A buffer given to it is a      *)
(* header with the right magic constants and size, and behind it, with or  *)
(* without the eight bytes 0x40000000, length + 8 before them, one record  *)
(* per band: the band id, the payload length, the payload, and from zero   *)
(* to three zero bytes before the next record.                             *)
(***************************************************************************)
MaxGap == 3

\* the records of msg's bands in the order `order`, gaps[i] zero bytes behind
\* the payload of record i
RECURSIVE RecordStream(_, _, _, _)
RecordStream(msg, order, gaps, i) ==
    IF i > Len(order) THEN <<>>
    ELSE LET peaksBuf == EncodePeaks(msg.peaks[order[i]])
         IN LE32(BandIDBase + order[i]) \o LE32(Len(peaksBuf)) \o peaksBuf
            \o Zeros(gaps[i]) \o RecordStream(msg, order, gaps, i + 1)

\* a header that passes the three checks, with the IEEE CRC32 of all that
\* follows offset 8, and body behind it
HeadedBuffer(msg, body) ==
    LET shifted == ShiftedSampleRateID(msg.SampleRateHz)
        count == NumberSamplesPlusDividedRate(msg)
        crc == ChecksumIEEE(Slice(RawHeader(Zeros(4), Len(body), shifted, count), 8, 48) \o body)
    IN RawHeader(crc, Len(body), shifted, count) \o body

\* header, the eight bytes, records
PrefixedBuffer(msg, order, gaps) ==
    LET contents == RecordStream(msg, order, gaps, 1)
    IN HeadedBuffer(msg, LE32(InnerTag) \o LE32(Len(contents) + 8) \o contents)

\* header, records
BareBuffer(msg, order, gaps) == HeadedBuffer(msg, RecordStream(msg, order, gaps, 1))

\* The peaks of the streams: band b has a gap of 300 frames, and so an escape
\* record, before its peak b + 1 (VeryHigh has none); no magnitude or bin holds
\* a byte 0xFF, so the escape records are the only place where the peak loop,
\* in step or out of step, takes four bytes for a frame number, and every
\* frame number read is below 2^31.
WireTrack(b) ==
    [i \in 1..(MaxPeaks + 2) |->
        <<IF i = b + 1 /\ b < VeryHighBand THEN 300 ELSE i, 1000 * i + b, 16 * i + b>>]
WireLengths == UNION {[S -> 1..MaxPeaks] : S \in {T \in SUBSET Bands : Cardinality(T) <= 2}}
WireSignatures ==
    {[SampleRateHz |-> r, NumberSamples |-> n,
      peaks |-> [b \in DOMAIN len |-> PeaksOf(WireTrack(b), len[b], r)]] :
        r \in {16000, 44100}, n \in SampleCounts, len \in WireLengths}

InitWire ==
    /\ sig \in WireSignatures
    /\ \E order \in Orders(DOMAIN sig.peaks) :
          \E gaps \in [1..Len(order) -> 0..MaxGap] :
             data \in {PrefixedBuffer(sig, order, gaps), BareBuffer(sig, order, gaps)}
    /\ peaksIn = <<>>
    /\ freq = 0
    /\ Idle

NextWire == Decode

SpecWire == InitWire /\ [][NextWire]_vars

(***************************************************************************)
(* getFrequencyBand on every frequency up to MaxFreq tenths of a hertz.    *)
(***************************************************************************)
InitBand ==
    /\ freq \in 0..MaxFreq
    /\ sig = NoSig
    /\ data = NoData
    /\ peaksIn = <<>>
    /\ Idle

Classify ==
    /\ band = NoBand
    /\ band' = getFrequencyBand(freq)
    /\ UNCHANGED <<sig, encPrev, encRes, data, decRes, peaksIn, payload, parsed, freq>>
    /\ UNCHANGED streamVars

NextBand == Classify

SpecBand == InitBand /\ [][NextBand]_vars

(***************************************************************************)
(* SoundCloudChunk.Record.  A channel is its capacity, the bytes buffered  *)
(* in it (q), whether it is closed, and the bytes sent on it since the     *)
(* Record call began, those buffered at that moment included (sent).  A    *)
(* time.Duration is a whole number of seconds.  The select of the loop     *)
(* takes the byte when one is buffered; with none, it sees the channel     *)
(* closed, or the 100 ms timer fires.                                      *)
(***************************************************************************)
MakeChan(n) == [nil |-> FALSE, cap |-> n, q |-> <<>>, closed |-> FALSE, sent |-> <<>>]

\* Record up to the loop: newChunk and its timestamp, chunkBuffer
RecordInit(chunk) ==
    [pc |-> "loop", i |-> 0, chunkBuffer |-> Zeros(ChunkLen),
     newTimestamp |-> chunk.timestamp + 10, exit |-> ""]

\* case buf, ok := <-in, ok true: chunkBuffer[i] = buf, then i++ and the loop test
OnReceive(r, b) ==
    [r EXCEPT !.chunkBuffer = [r.chunkBuffer EXCEPT ![r.i + 1] = b],
              !.i = r.i + 1,
              !.pc = IF r.i + 1 < ChunkLen THEN "loop" ELSE "filled",
              !.exit = IF r.i + 1 < ChunkLen THEN "" ELSE "full"]
\* case buf, ok := <-in, ok false
OnClosed(r) ==
    [r EXCEPT !.chunkBuffer = Slice(r.chunkBuffer, 0, r.i), !.pc = "filled", !.exit = "closed"]
\* the timer case without its break
OnTimeoutWait(r) == r
\* case <-time.After(100 * time.Millisecond)
OnTimeout(r) ==
    [r EXCEPT !.chunkBuffer = Slice(r.chunkBuffer, 0, r.i), !.pc = "filled", !.exit = "timeout"]

\* a call of Record on scc with the channel audioChan
RecordCall ==
    /\ rec.pc = "idle"
    /\ rec' = RecordInit(scc)
    /\ audioChan' = [audioChan EXCEPT !.sent = audioChan.q]
    /\ returned' = NoChunk
    /\ audio' = NoAudio
    /\ UNCHANGED <<chunkCounter, scc>>
    /\ UNCHANGED codecVars

\* one pass of the loop
RecordStep ==
    /\ rec.pc = "loop"
    /\ rec' = IF audioChan.q # <<>> THEN OnReceive(rec, Head(audioChan.q))
              ELSE IF audioChan.closed THEN OnClosed(rec)
              ELSE OnTimeout(rec)
    /\ audioChan' = IF audioChan.q # <<>> THEN [audioChan EXCEPT !.q = Tail(audioChan.q)]
                    ELSE audioChan
    /\ UNCHANGED <<chunkCounter, scc, returned, audio>>
    /\ UNCHANGED codecVars

\* scc.audioChunk = &chunkBuffer; return &newChunk
RecordEnd ==
    /\ rec.pc = "filled"
    /\ scc' = [scc EXCEPT !.audioChunk = rec.chunkBuffer]
    /\ returned' = [kind |-> "chunk", timestamp |-> rec.newTimestamp, audioChunk |-> NilBuffer]
    /\ rec' = [rec EXCEPT !.pc = "idle"]
    /\ audio' = NoAudio
    /\ UNCHANGED audioChan
    /\ UNCHANGED codecVars

RecordReturn == RecordEnd /\ UNCHANGED chunkCounter

\* the producer of the channel sends a byte
SentBytes == {1, 2}
Send(b) ==
    /\ ~audioChan.nil /\ ~audioChan.closed
    /\ Len(audioChan.q) < audioChan.cap
    /\ audioChan' = [audioChan EXCEPT !.q = Append(audioChan.q, b),
                                      !.sent = Append(audioChan.sent, b)]
    /\ UNCHANGED <<chunkCounter, scc, rec, returned, audio>>
    /\ UNCHANGED codecVars

\* the producer closes the channel
Close ==
    /\ ~audioChan.nil /\ ~audioChan.closed
    /\ audioChan' = [audioChan EXCEPT !.closed = TRUE]
    /\ UNCHANGED <<chunkCounter, scc, rec, returned, audio>>
    /\ UNCHANGED codecVars

\* a chunk as GetChunk builds it and a channel, nil or made
InitRecord ==
    /\ audioChan \in {NilChan} \cup {MakeChan(n) : n \in 1..ChanCap}
    /\ chunkCounter = 0
    /\ scc = [kind |-> "chunk", timestamp |-> 0, audioChunk |-> NilBuffer]
    /\ rec = NoRec /\ returned = NoChunk /\ audio = NoAudio
    /\ CodecIdle

NextRecord == RecordCall \/ RecordStep \/ RecordReturn \/ (\E b \in SentBytes : Send(b)) \/ Close

\* the goroutine in Record runs: a pass of the loop that can be made is made
SpecRecord == InitRecord /\ [][NextRecord]_vars /\ WF_vars(RecordStep)

(***************************************************************************)
(* SoundCloudStream: InitStream, the streamAudio goroutine, GetChunk and   *)
(* GetAudioData on the chunk GetChunk returned.                            *)
(***************************************************************************)
\* the argument of InitStream: whether it is a string, and whether
\* url.ParseRequestURI accepts it
Links == {[str |-> TRUE, uri |-> TRUE], [str |-> TRUE, uri |-> FALSE], [str |-> FALSE, uri |-> FALSE]}

InitStream(link) ==
    /\ rec.pc = "idle"
    /\ IF link.str /\ link.uri
       THEN /\ chunkCounter' = 0
            /\ audioChan' = MakeChan(ChunkLen)
       ELSE UNCHANGED <<chunkCounter, audioChan>>
    /\ UNCHANGED <<scc, rec, returned, audio>>
    /\ UNCHANGED codecVars

\* streamAudio sends byte(scs.chunkCounter % 256); it reads the counter while
\* GetChunk writes it, without synchronisation, so the value read is any the
\* counter has had
streamAudio ==
    /\ ~audioChan.nil
    /\ Len(audioChan.q) < audioChan.cap
    /\ \E c \in 0..chunkCounter :
          audioChan' = [audioChan EXCEPT !.q = Append(audioChan.q, c % 256),
                                        !.sent = Append(audioChan.sent, c % 256)]
    /\ UNCHANGED <<chunkCounter, scc, rec, returned, audio>>
    /\ UNCHANGED codecVars

\* GetChunk up to the loop of Record
GetChunk ==
    /\ rec.pc = "idle"
    /\ chunkCounter < MaxChunks
    /\ IF audioChan.nil
       THEN /\ returned' = [kind |-> "error", timestamp |-> 0, audioChunk |-> NilBuffer]
            /\ UNCHANGED <<audioChan, scc, rec>>
       ELSE /\ scc' = [kind |-> "chunk", timestamp |-> chunkCounter * 10,
                       audioChunk |-> NilBuffer]
            /\ rec' = RecordInit(scc')
            /\ audioChan' = [audioChan EXCEPT !.sent = audioChan.q]
            /\ returned' = NoChunk
    /\ audio' = NoAudio
    /\ UNCHANGED chunkCounter
    /\ UNCHANGED codecVars

\* the end of Record, then scs.chunkCounter++ and return newChunk, nil
GetChunkReturn == RecordEnd /\ chunkCounter' = chunkCounter + 1

\* GetAudioData on the chunk returned: *scc.audioChunk
GetAudioData ==
    /\ rec.pc = "idle"
    /\ returned.kind = "chunk"
    /\ audio.st = "none"
    /\ audio' = IF returned.audioChunk = NilBuffer THEN [st |-> "fault", bytes |-> <<>>]
                ELSE [st |-> "ok", bytes |-> returned.audioChunk]
    /\ UNCHANGED <<audioChan, chunkCounter, scc, rec, returned>>
    /\ UNCHANGED codecVars

InitSource == StreamIdle /\ CodecIdle

NextSource ==
    \/ \E link \in Links : InitStream(link)
    \/ streamAudio
    \/ GetChunk
    \/ RecordStep
    \/ GetChunkReturn
    \/ GetAudioData

SpecSource == InitSource /\ [][NextSource]_vars

(***************************************************************************)
(* Claims.                                                                 *)
(***************************************************************************)
SamePeaks(a, b) ==
    /\ Len(a) = Len(b)
    /\ \A i \in 1..Len(a) :
          /\ a[i].FFTPassNumber = b[i].FFTPassNumber
          /\ a[i].PeakMagnitude = b[i].PeakMagnitude
          /\ a[i].CorrectedPeakFrequencyBin = b[i].CorrectedPeakFrequencyBin

\* C1: round trip.  Encoding a signature with an enumerated sample rate and
\* ascending peaks succeeds, and decoding the bytes returned succeeds and
\* gives back the sample rate, the sample count and every band's peaks.
C1_RoundTrip ==
    /\ encRes.st # "none" => encRes.st = "ok"
    /\ decRes.st # "none" =>
          /\ decRes.st = "ok"
          /\ decRes.msg.SampleRateHz = sig.SampleRateHz
          /\ decRes.msg.NumberSamples = sig.NumberSamples
          /\ \A b \in DOMAIN sig.peaks :
                /\ BandKey(b) \in DOMAIN decRes.msg.peaks
                /\ SamePeaks(decRes.msg.peaks[BandKey(b)], sig.peaks[b])

BadMagic1(buf) == Slice(buf, 0, 4) # Magic1Bytes
BadSize(buf) == Slice(buf, 8, 12) # LE32(Len(buf) - 48)
BadMagic2(buf) == Slice(buf, 12, 16) # Magic2Bytes

\* C2: header rejection.  A buffer shorter than the 48-byte header, or with a
\* wrong first magic constant, a wrong SizeMinusHeader or a wrong second
\* magic constant, is refused with an error and no signature; of the three
\* field checks the first that fails, in that order, names the error.
C2_HeaderRejected ==
    decRes.st # "none" =>
        /\ Len(data) < 48 => decRes.st = "err" /\ decRes.msg.nil
        /\ Len(data) >= 48 /\ BadMagic1(data) =>
              decRes.st = "err" /\ decRes.err = "invalid magic1" /\ decRes.msg.nil
        /\ Len(data) >= 48 /\ ~BadMagic1(data) /\ BadSize(data) =>
              decRes.st = "err" /\ decRes.err = "invalid size" /\ decRes.msg.nil
        /\ Len(data) >= 48 /\ ~BadMagic1(data) /\ ~BadSize(data) /\ BadMagic2(data) =>
              decRes.st = "err" /\ decRes.err = "invalid magic2" /\ decRes.msg.nil

\* a buffer with a right first magic constant and a wrong size and second
\* magic constant has been decoded: the size check answered
C2_Witness ==
    /\ decRes.st = "err" /\ decRes.err = "invalid size"
    /\ Len(data) >= 48 /\ ~BadMagic1(data) /\ BadSize(data) /\ BadMagic2(data)

\* C3: EncodeToBinary never fails, aborts or panics on an in-range
\* signature, whatever the number of peaks in a band.
C3_EncodeNeverFails == encRes.st # "panic"

PaddedLen(n) == n + ((4 - (n % 4)) % 4)
RecordLen(s, b) ==
    IF b \in DOMAIN s.peaks THEN 8 + PaddedLen(Len(EncodePeaks(s.peaks[b]))) ELSE 0
ContentLen(s) ==
    RecordLen(s, LowBand) + RecordLen(s, MidBand) + RecordLen(s, HighBand)
    + RecordLen(s, VeryHighBand)

\* C4: in a buffer returned by EncodeToBinary the SizeMinusHeader field (offset
\* 8) is the buffer's length less 48, and the buffer is the header, the 8-byte
\* inner-length prefix and the TLV content: 56 bytes plus the content.
C4_SizeMinusHeader ==
    encRes.st = "ok" =>
        /\ Slice(encRes.bytes, 8, 12) = LE32(Len(encRes.bytes) - 48)
        /\ Len(encRes.bytes) = 56 + ContentLen(sig)

\* C5: in a buffer returned by EncodeToBinary the CRC32 field (offset 4) is the
\* IEEE CRC32 of the returned buffer from offset 8 to its end.
C5_CrcOfReturnedBuffer ==
    encRes.st = "ok" =>
        Slice(encRes.bytes, 4, 8) = ChecksumIEEE(Slice(encRes.bytes, 8, Len(encRes.bytes)))

\* C6: the ShiftedSampleRateID field that EncodeToBinary writes (offset 28),
\* shifted right by 27 bits as DecodeFromBinary does, is the sample rate of
\* the signature encoded.
C6_SampleRateField ==
    encRes.st = "ok" => SampleRateOf(Slice(encRes.bytes, 28, 32)) = sig.SampleRateHz

\* Whether the TLV stream of buf, read from offset pos, lacks bytes: fewer than
\* 8 for a TLV header, fewer than the header declares, or a payload that ends
\* inside a 5-byte peak or escape record.
RECURSIVE TruncatedFrom(_, _)
TruncatedFrom(buf, pos) ==
    IF pos >= Len(buf) THEN FALSE
    ELSE IF Len(buf) - pos < 8 THEN TRUE
    ELSE LET declared == Uint32(Slice(buf, pos + 4, pos + 8))
         IN \/ Len(buf) - (pos + 8) < declared
            \/ declared % 5 # 0
            \/ TruncatedFrom(buf, pos + 8 + PaddedLen(declared))
\* truncated wherever the records are taken to start: right behind the header,
\* where the decoder reads them, or behind the 8-byte inner-length prefix
Truncated(buf) == TruncatedFrom(buf, 48) /\ TruncatedFrom(buf, 56)

\* C7: a buffer with a truncated record (too few bytes for a TLV header, for
\* the payload length declared, behind an escape byte or behind a delta byte)
\* is never accepted: DecodeFromBinary fails on it.
C7_TruncatedRejected ==
    (decRes.st # "none" /\ Len(data) >= 48 /\ Truncated(data)) => decRes.st = "err"

\* Whether buf, from offset pos on, is the records of peaks[i..]: an escape
\* record with the absolute frame number before each peak 255 or more above
\* the running baseline `base`, its delta byte then 0; any other delta byte is
\* the gap itself, at most 254.
RECURSIVE WellEscaped(_, _, _, _, _)
WellEscaped(peaks, i, base, buf, pos) ==
    IF i > Len(peaks) THEN pos = Len(buf)
    ELSE LET pass == peaks[i].FFTPassNumber
             gap == pass - base
             at == IF gap >= 255 THEN pos + 5 ELSE pos
         IN /\ Len(buf) >= at + 5
            /\ gap >= 255 => buf[pos + 1] = 255 /\ Slice(buf, pos + 1, pos + 5) = LE32(pass)
            /\ buf[at + 1] = (IF gap >= 255 THEN 0 ELSE gap)
            /\ buf[at + 1] <= 254
            /\ Slice(buf, at + 1, at + 3) = LE16(peaks[i].PeakMagnitude)
            /\ Slice(buf, at + 3, at + 5) = LE16(peaks[i].CorrectedPeakFrequencyBin)
            /\ WellEscaped(peaks, i + 1, pass, buf, at + 5)

\* C8: escape encoding.  The payload built for an ascending peak sequence has
\* an 0xFF escape record exactly before each peak 255 or more frames above the
\* running baseline, and the decoder's peak loop, starting from baseline 0,
\* returns the original peaks, none for the escape records.
C8_EscapeRoundTrip ==
    /\ payload # NoData => WellEscaped(peaksIn, 1, 0, payload, 0)
    /\ parsed.st = "done" => parsed.err = "" /\ SamePeaks(parsed.peaks, peaksIn)

\* a payload with an escape record before its second peak has been parsed
C8_Witness ==
    /\ parsed.st = "done"
    /\ Len(peaksIn) >= 2
    /\ peaksIn[2].FFTPassNumber - peaksIn[1].FFTPassNumber >= 255
    /\ Len(payload) > 5 * Len(peaksIn)

\* C9: getFrequencyBand is total, without gap or overlap: Low exactly below
\* 250 Hz, Mid exactly from 250 to below 520, High exactly from 520 to below
\* 1450, VeryHigh exactly from 1450 on.
C9_BandBoundaries ==
    band # NoBand =>
        /\ band \in Bands
        /\ band = LowBand <=> freq < 2500
        /\ band = MidBand <=> (2500 <= freq /\ freq < 5200)
        /\ band = HighBand <=> (5200 <= freq /\ freq < 14500)
        /\ band = VeryHighBand <=> 14500 <= freq

\* 250.0 Hz has been classified, as Mid
C9_Witness == band = MidBand /\ freq = 2500

\* C10: two calls of EncodeToBinary on the same signature return the same
\* bytes (the band records in the same order, the same CRC32).
C10_StableOrder ==
    (encPrev.st = "ok" /\ encRes.st = "ok") => encPrev.bytes = encRes.bytes

\* c - r * 0.24 rounded to the nearest integer (r * 0.24 is never half-way)
RoundedCount(c, r) ==
    LET v == c * 100 - r * 24
    IN IF v >= 0 THEN (v + 50) \div 100 ELSE -((50 - v) \div 100)

\* C11: for every buffer DecodeFromBinary accepts, the sample count returned is
\* c - r * 0.24 rounded to the nearest integer, c being the header's
\* NumberSamplesPlusDividedRate field and r the sample rate decoded
\* (ShiftedSampleRateID >> 27).
C11_CountRounded ==
    decRes.st = "ok" =>
        decRes.msg.NumberSamples =
            RoundedCount(Uint32(Field(data, 40)), SampleRateOf(Field(data, 28)))

\* whether the inner-length prefix stands behind the header of buf
HasPrefix(buf) == Len(buf) >= 56 /\ Field(buf, 48) = LE32(InnerTag)
BandKeys(s) == {BandKey(b) : b \in DOMAIN s.peaks}
BandIDs == {LE32(BandIDBase + b) : b \in Bands}

\* Whether buf, from offset pos to its end, is TLV records as the wire format
\* lays them out: band id, payload length, payload, zero to three bytes up to
\* the next multiple of four.
RECURSIVE LaidOutFrom(_, _)
LaidOutFrom(buf, pos) ==
    IF pos = Len(buf) THEN TRUE
    ELSE IF Len(buf) - pos < 8 THEN FALSE
    ELSE IF Field(buf, pos) \notin BandIDs \/ buf[pos + 8] >= 128 THEN FALSE
    ELSE LET next == pos + 8 + PaddedLen(Uint32(Slice(buf, pos + 4, pos + 8)))
         IN next <= Len(buf) /\ LaidOutFrom(buf, next)

\* C12: in a buffer laid out as the wire format says (header, inner-length
\* prefix at 48..55, TLV records from 56 on) the prefix is never taken for a TLV
\* record: every key of the peaks returned is the band of a record of the
\* stream, a band in 0..3.
C12_PrefixNotARecord ==
    (decRes.st = "ok" /\ HasPrefix(data) /\ LaidOutFrom(data, 56)) =>
        \A k \in DOMAIN decRes.msg.peaks : k \in BandKeys(sig)

\* C13: behind a payload of L bytes the cursor moves forward to the next
\* multiple of four, so every record of a stream laid out as the wire format
\* says is read from its true offset: the stream is accepted, and each record's
\* peaks are returned under its band.
C13_RecordsAtTrueOffsets ==
    (decRes.st # "none" /\ ~HasPrefix(data) /\ LaidOutFrom(data, 48)) =>
        /\ decRes.st = "ok"
        /\ DOMAIN decRes.msg.peaks = BandKeys(sig)
        /\ \A b \in DOMAIN sig.peaks : SamePeaks(decRes.msg.peaks[BandKey(b)], sig.peaks[b])

\* the bytes sent since the call are those in buf, then those still buffered
InOrder(buf) == audioChan.sent = buf \o audioChan.q

Recorded ==
    /\ rec.pc = "filled" =>
          /\ Len(rec.chunkBuffer) = rec.i /\ rec.i <= ChunkLen
          /\ InOrder(rec.chunkBuffer)
          /\ rec.exit = "full" <=> rec.i = ChunkLen
    /\ (rec.pc = "idle" /\ returned.kind = "chunk") =>
          /\ scc.audioChunk # NilBuffer
          /\ InOrder(scc.audioChunk)

\* the loop is left early only with no byte buffered: on a closed channel, or
\* on the timer
EarlyOnlyWhenEmpty ==
    (rec.pc = "loop" /\ rec'.pc = "filled" /\ rec'.exit # "full") =>
        /\ audioChan.q = <<>>
        /\ rec'.exit = "closed" <=> audioChan.closed

\* C14: Record always terminates, whatever the producer does.  When it is
\* through, the buffer it stores holds exactly the bytes received, in the order
\* sent: 320000 (ChunkLen here) when a byte was there at every pass, and the i
\* bytes received so far when the channel was found empty and closed or the
\* timer fired.
C14_RecordTerminates ==
    /\ []Recorded
    /\ [][EarlyOnlyWhenEmpty]_vars
    /\ (rec.pc = "loop" ~> rec.pc = "filled")

\* Record has returned on the timer with a partial buffer
C14_Witness ==
    /\ rec.pc = "idle" /\ returned.kind = "chunk" /\ rec.exit = "timeout"
    /\ Len(scc.audioChunk) > 0 /\ Len(scc.audioChunk) < ChunkLen

\* C15: the chunk GetChunk returns holds the bytes recorded during the call
\* (its audio buffer is never nil, and GetAudioData on it does not fault), and
\* its timestamp is the start of the window recorded, chunkCounter * 10 s.
C15_ReturnedChunkHoldsAudio ==
    /\ returned.kind = "chunk" =>
          /\ returned.audioChunk # NilBuffer
          /\ returned.audioChunk = scc.audioChunk
          /\ returned.timestamp = scc.timestamp
    /\ audio.st # "fault"

====
